---- MODULE Spec2Model ----
(***************************************************************************)
(* Model of the two command-line scripts of boyum/tanoshii:                *)
(*   scripts/stt_service.py   - speech-to-text (faster-whisper + ffmpeg)   *)
(*   scripts/tts_generator.py - text-to-speech (edge-tts)                  *)
(*                                                                         *)
(* Strings whose content matters (paths, segment texts) are sequences of   *)
(* one-character strings, so that endswith / strip / join are computed.    *)
(* The external collaborators (ffmpeg, WhisperModel, edge_tts) are         *)
(* nondeterministic: they may succeed or raise.                            *)
(***************************************************************************)
EXTENDS Integers, Sequences, FiniteSets, TLC

\* ---------------------------------------------------------------- bounds
MaxCalls == 3     \* calls of get_model()/transcribe() by an importing process
MaxSegs == 2      \* segments yielded by one recognition
MaxSegLen == 3    \* characters in one segment text

\* ---------------------------------------------------------------- values
None == <<>>      \* Python None for a path-valued variable
ModelNone == 0    \* Python None for the _model slot; instances are 1, 2, ...
NotExited == -1   \* the process has not terminated yet

Whitespace == {" "}
Chars == {"a", " "}

RECURSIVE StrUpTo(_)
StrUpTo(n) ==
    IF n = 0 THEN {<<>>}
    ELSE LET S == StrUpTo(n - 1) IN S \cup {Append(s, c) : s \in S, c \in Chars}

SegTexts == StrUpTo(MaxSegLen)

RECURSIVE SegSeqsUpTo(_)
SegSeqsUpTo(n) ==
    IF n = 0 THEN {<<>>}
    ELSE LET S == SegSeqsUpTo(n - 1) IN S \cup {Append(s, t) : s \in S, t \in SegTexts}

SegSeqs == SegSeqsUpTo(MaxSegs)

\* Segment sequences the recognizer yields in whole-program runs.
RecognizerOutputs ==
    { <<>>,
      << <<"a">> >>,
      << <<" ">>, <<"a", " ", "a">> >>,
      << <<" ", "a", " ">>, <<"a", " ">> >> }

\* Argument paths the scripts are exercised with.
InputPaths ==
    { <<"a", ".", "w", "e", "b", "m">>,
      <<"a", ".", "o", "g", "g">>,
      <<"a", ".", "w", "a", "v">>,
      <<"a", ".", "W", "E", "B", "M">>,
      <<"o", "g", "g">>,
      <<"a", ".", "o", "g", "g", ".", "b", "a", "k">> }

ToolErrTexts == {"Invalid data found", "Permission denied"}

\* an option that is not on the command line
Omitted == "(omitted)"

DefaultVoice == "ja-JP-NanamiNeural"

Texts == {"konnichiwa", "arigatou"}

Voices == {"ja-JP-NanamiNeural", "ja-JP-KeitaNeural"}

Outputs == {"out.mp3", "b.mp3"}

NoArgs == [text |-> Omitted, voice |-> Omitted, output |-> Omitted]

TracebackLine == [text |-> "Traceback (most recent call last):", detail |-> "", path |-> None]

ArgparseErrorLine ==
    [text |-> "error: the following arguments are required", detail |-> "", path |-> None]

NoExc == [type |-> "none", text |-> "", detail |-> ""]

FfmpegMissingExc ==
    [type |-> "RuntimeError",
     text |-> "ffmpeg not found. Please install ffmpeg: brew install ffmpeg",
     detail |-> ""]

FfmpegFailedExc(err) ==
    [type |-> "RuntimeError", text |-> "ffmpeg conversion failed: ", detail |-> err]

ModelLoadExc == [type |-> "Exception", text |-> "model load failed", detail |-> ""]

RecognizerExc == [type |-> "Exception", text |-> "recognition failed", detail |-> ""]

UsageLine ==
    [text |-> "Usage: python stt_service.py <audio_file_path>",
     detail |-> "", path |-> None]

NotFoundLine(p) == [text |-> "Error: File not found: ", detail |-> "", path |-> p]

ErrorLine(e) == [text |-> "Error: " \o e.text, detail |-> e.detail, path |-> None]

\* ------------------------------------------------------- pure functions
\* str.endswith
EndsWith(s, suf) ==
    /\ Len(s) >= Len(suf)
    /\ SubSeq(s, Len(s) - Len(suf) + 1, Len(s)) = suf

\* Variant: the suffixes are compared without their leading dot.
NeedsConversion_NoDot(p) ==
    \/ EndsWith(p, <<"w", "e", "b", "m">>)
    \/ EndsWith(p, <<"o", "g", "g">>)

\* the test of line 62
NeedsConversion(p) ==
    \/ EndsWith(p, <<".", "w", "e", "b", "m">>)
    \/ EndsWith(p, <<".", "o", "g", "g">>)

RECURSIVE LStrip(_)
LStrip(s) ==
    IF s = <<>> THEN s
    ELSE IF Head(s) \in Whitespace THEN LStrip(Tail(s)) ELSE s

RECURSIVE RStrip(_)
RStrip(s) ==
    IF s = <<>> THEN s
    ELSE IF s[Len(s)] \in Whitespace THEN RStrip(SubSeq(s, 1, Len(s) - 1)) ELSE s

\* Variant: only leading whitespace is removed.
Strip_LeftOnly(s) == LStrip(s)

\* str.strip()
Strip(s) == RStrip(LStrip(s))

\* sep.join(parts)
RECURSIVE Join(_, _)
Join(sep, ps) ==
    IF ps = <<>> THEN <<>>
    ELSE IF Len(ps) = 1 THEN ps[1]
    ELSE ps[1] \o sep \o Join(sep, Tail(ps))

\* Variant: the conversion is started before the model is fetched.
TranscribeEntry_ConvertFirst == "branch"

\* the first statement of transcribe (line 57) is the call of get_model
TranscribeEntry == "get_model"

\* the name tempfile.mkstemp(suffix=".wav") returns for the n-th temp file
TmpPath(n) == <<"/", "t", "m", "p", "/", ToString(n), ".", "w", "a", "v">>

\* ------------------------------------------------------------ variables
VARIABLES
    program,          \* "stt_script": python stt_service.py ...; "stt_import": module imported
    pc,               \* position of the process
    argv,             \* sys.argv[1:]
    fs,               \* paths that exist on the filesystem
    ffmpegInstalled,  \* whether the ffmpeg executable can be found
    _model,           \* the module-level cache (line 18)
    callee,           \* function called by the importer: "transcribe" or "get_model"
    audio_path,       \* transcribe's parameter / __main__'s audio_path
    cw_wav_path,      \* convert_to_wav's local wav_path (line 31)
    wav_path,         \* transcribe's local wav_path (line 60)
    audio_to_transcribe,
    segments,         \* segments the generator has still to yield
    parts,            \* stripped segment texts collected by join
    text,             \* line 77
    retval,           \* value returned by transcribe
    exc,              \* exception in flight / raised by the last call
    stdout, stderr, exitCode,
    \* history (observations of the run, not read by the program)
    calls,            \* calls made by the importer
    ctorCalls,        \* invocations of WhisperModel(...)
    ctorOk,           \* invocations that returned an instance
    returnedModels,   \* values returned by get_model()
    getModelDone,     \* get_model() calls that returned or raised
    tmpCount,         \* temp files created by mkstemp so far
    ffmpegRuns,       \* subprocess.run attempts in the current call
    toolErr,          \* stderr text of the last failed ffmpeg run
    convOutcome,      \* "none" | "ok" | "missing" | "failed" (current call)
    recogArgs,        \* paths passed to model.transcribe in the current call
    recogOutcome,     \* "none" | "running" | "ok" | "raised" (current call)
    recSegments,      \* all segments the recognizer produced in the current call
    artifactAtRecog,  \* whether cw_wav_path existed when model.transcribe was called
    removed,          \* paths the program removed in the current call
    \* tts_generator.py
    tts_argv,         \* the --text / --voice / --output options given
    args,             \* the namespace parse_args returns (line 24)
    communicateCalls, \* arguments of each edge_tts.Communicate(...) (line 14)
    saveCalls,        \* argument of each communicate.save(...) started (line 15)
    saveDone          \* save coroutines that have completed

sttVars == <<program, pc, argv, fs, ffmpegInstalled, _model, callee, audio_path,
             cw_wav_path, wav_path, audio_to_transcribe, segments, parts, text,
             retval, exc, stdout, stderr, exitCode, calls, ctorCalls, ctorOk,
             returnedModels, getModelDone, tmpCount, ffmpegRuns,
             toolErr, convOutcome, recogArgs, recogOutcome, recSegments,
             artifactAtRecog, removed>>

ttsVars == <<tts_argv, args, communicateCalls, saveCalls, saveDone>>

vars == <<sttVars, ttsVars>>

\* the state of stt_service.py that tts_generator.py does not have
sttOnly == <<argv, fs, ffmpegInstalled, _model, callee, audio_path, calls,
             tmpCount, stdout>>

callVars == <<cw_wav_path, wav_path, audio_to_transcribe, segments, parts, text,
              retval, exc, ffmpegRuns, toolErr, convOutcome, recogArgs,
              recogOutcome, recSegments, artifactAtRecog, removed>>

histModel == <<ctorCalls, ctorOk, returnedModels, getModelDone>>

io == <<stdout, stderr, exitCode>>

\* fresh locals and per-call observations at the start of a call
ResetCall ==
    /\ cw_wav_path' = None
    /\ wav_path' = None
    /\ audio_to_transcribe' = None
    /\ segments' = <<>>
    /\ parts' = <<>>
    /\ text' = <<>>
    /\ retval' = <<>>
    /\ exc' = NoExc
    /\ ffmpegRuns' = 0
    /\ toolErr' = ""
    /\ convOutcome' = "none"
    /\ recogArgs' = <<>>
    /\ recogOutcome' = "none"
    /\ recSegments' = <<>>
    /\ artifactAtRecog' = FALSE
    /\ removed' = {}

Init ==
    /\ program \in {"stt_script", "stt_import", "tts"}
    /\ pc = CASE program = "stt_script" -> "main"
              [] program = "stt_import" -> "idle"
              [] program = "tts" -> "tts_main"
    /\ argv \in IF program = "stt_script"
                THEN {<<>>} \cup {<<p>> : p \in InputPaths}
                ELSE {<<>>}
    /\ fs \in IF program = "tts" THEN {{}} ELSE {{}, InputPaths}
    /\ ffmpegInstalled \in IF program = "tts" THEN {FALSE} ELSE BOOLEAN
    /\ _model = ModelNone
    /\ callee = "none"
    /\ audio_path = None
    /\ cw_wav_path = None
    /\ wav_path = None
    /\ audio_to_transcribe = None
    /\ segments = <<>>
    /\ parts = <<>>
    /\ text = <<>>
    /\ retval = <<>>
    /\ exc = NoExc
    /\ stdout = <<>>
    /\ stderr = <<>>
    /\ exitCode = NotExited
    /\ calls = 0
    /\ ctorCalls = 0
    /\ ctorOk = 0
    /\ returnedModels = {}
    /\ getModelDone = 0
    /\ tmpCount = 0
    /\ ffmpegRuns = 0
    /\ toolErr = ""
    /\ convOutcome = "none"
    /\ recogArgs = <<>>
    /\ recogOutcome = "none"
    /\ recSegments = <<>>
    /\ artifactAtRecog = FALSE
    /\ removed = {}
    /\ tts_argv \in IF program = "tts"
                    THEN [text : Texts \cup {Omitted},
                          voice : Voices \cup {Omitted},
                          output : Outputs \cup {Omitted}]
                    ELSE {NoArgs}
    /\ args = NoArgs
    /\ communicateCalls = <<>>
    /\ saveCalls = <<>>
    /\ saveDone = 0

\* Variant: the existence test of line 91 is missing.
MainStart_NoExistsCheck ==
    /\ program = "stt_script"
    /\ pc = "main"
    /\ IF Len(argv) < 1
       THEN /\ stderr' = Append(stderr, UsageLine)
            /\ exitCode' = 1
            /\ pc' = "exited"
            /\ UNCHANGED <<audio_path, callee>>
       ELSE IF FALSE
       THEN /\ audio_path' = argv[1]
            /\ stderr' = Append(stderr, NotFoundLine(argv[1]))
            /\ exitCode' = 1
            /\ pc' = "exited"
            /\ UNCHANGED callee
       ELSE /\ audio_path' = argv[1]
            /\ callee' = "transcribe"
            /\ pc' = TranscribeEntry
            /\ UNCHANGED <<stderr, exitCode>>
    /\ UNCHANGED <<program, argv, fs, ffmpegInstalled, _model, stdout, calls,
                   tmpCount>>
    /\ UNCHANGED callVars
    /\ UNCHANGED histModel
    /\ UNCHANGED ttsVars

\* ------------------------------------------------- stt_service.py actions
\* __main__, lines 85-96: argument and existence checks, then the call.
MainStart ==
    /\ program = "stt_script"
    /\ pc = "main"
    /\ IF Len(argv) < 1
       THEN /\ stderr' = Append(stderr, UsageLine)
            /\ exitCode' = 1
            /\ pc' = "exited"
            /\ UNCHANGED <<audio_path, callee>>
       ELSE IF argv[1] \notin fs
       THEN /\ audio_path' = argv[1]
            /\ stderr' = Append(stderr, NotFoundLine(argv[1]))
            /\ exitCode' = 1
            /\ pc' = "exited"
            /\ UNCHANGED callee
       ELSE /\ audio_path' = argv[1]
            /\ callee' = "transcribe"
            /\ pc' = TranscribeEntry
            /\ UNCHANGED <<stderr, exitCode>>
    /\ UNCHANGED <<program, argv, fs, ffmpegInstalled, _model, stdout, calls,
                   tmpCount>>
    /\ UNCHANGED callVars
    /\ UNCHANGED histModel
    /\ UNCHANGED ttsVars

\* A process that imported the module calls transcribe(p) or get_model().
ImportCall ==
    /\ program = "stt_import"
    /\ pc \in {"idle", "returned"}
    /\ calls < MaxCalls
    /\ \E f \in {"transcribe", "get_model"}, p \in InputPaths :
          /\ callee' = f
          /\ audio_path' = IF f = "transcribe" THEN p ELSE None
    /\ calls' = calls + 1
    /\ pc' = IF callee' = "transcribe" THEN TranscribeEntry ELSE "get_model"
    /\ ResetCall
    /\ UNCHANGED <<program, argv, fs, ffmpegInstalled, _model, tmpCount>>
    /\ UNCHANGED io
    /\ UNCHANGED histModel
    /\ UNCHANGED ttsVars

\* Variant: the cache is not consulted; every call constructs a model.
GetModel_NoCache ==
    /\ pc = "get_model"
    /\ getModelDone' = getModelDone + 1
    /\ IF TRUE
       THEN \/ /\ ctorCalls' = ctorCalls + 1
               /\ ctorOk' = ctorOk + 1
               /\ _model' = ctorCalls + 1
               /\ returnedModels' = returnedModels \cup {ctorCalls + 1}
               /\ pc' = IF callee = "transcribe" THEN "branch" ELSE "returned"
               /\ UNCHANGED exc
            \/ /\ ctorCalls' = ctorCalls + 1
               /\ exc' = ModelLoadExc
               /\ pc' = "returned"
               /\ UNCHANGED <<ctorOk, _model, returnedModels>>
       ELSE /\ returnedModels' = returnedModels \cup {_model}
            /\ pc' = IF callee = "transcribe" THEN "branch" ELSE "returned"
            /\ UNCHANGED <<ctorCalls, ctorOk, _model, exc>>
    /\ UNCHANGED <<program, argv, fs, ffmpegInstalled, callee, audio_path,
                   cw_wav_path, wav_path, audio_to_transcribe, segments, parts,
                   text, retval, calls, tmpCount, ffmpegRuns, toolErr,
                   convOutcome, recogArgs, recogOutcome, recSegments,
                   artifactAtRecog, removed>>
    /\ UNCHANGED io
    /\ UNCHANGED ttsVars

\* get_model, lines 20-26 (called at line 57, before the try of transcribe).
GetModel ==
    /\ pc = "get_model"
    /\ getModelDone' = getModelDone + 1
    /\ IF _model = ModelNone
       THEN \/ /\ ctorCalls' = ctorCalls + 1
               /\ ctorOk' = ctorOk + 1
               /\ _model' = ctorCalls + 1
               /\ returnedModels' = returnedModels \cup {ctorCalls + 1}
               /\ pc' = IF callee = "transcribe" THEN "branch" ELSE "returned"
               /\ UNCHANGED exc
            \/ /\ ctorCalls' = ctorCalls + 1
               /\ exc' = ModelLoadExc
               /\ pc' = "returned"
               /\ UNCHANGED <<ctorOk, _model, returnedModels>>
       ELSE /\ returnedModels' = returnedModels \cup {_model}
            /\ pc' = IF callee = "transcribe" THEN "branch" ELSE "returned"
            /\ UNCHANGED <<ctorCalls, ctorOk, _model, exc>>
    /\ UNCHANGED <<program, argv, fs, ffmpegInstalled, callee, audio_path,
                   cw_wav_path, wav_path, audio_to_transcribe, segments, parts,
                   text, retval, calls, tmpCount, ffmpegRuns, toolErr,
                   convOutcome, recogArgs, recogOutcome, recSegments,
                   artifactAtRecog, removed>>
    /\ UNCHANGED io
    /\ UNCHANGED ttsVars

\* transcribe lines 60-66; for .webm/.ogg enters convert_to_wav (lines 31-32).
Branch ==
    /\ pc = "branch"
    /\ IF NeedsConversion(audio_path)
       THEN /\ tmpCount' = tmpCount + 1
            /\ cw_wav_path' = TmpPath(tmpCount + 1)
            /\ fs' = fs \cup {TmpPath(tmpCount + 1)}
            /\ pc' = "ffmpeg"
            /\ UNCHANGED audio_to_transcribe
       ELSE /\ audio_to_transcribe' = audio_path
            /\ pc' = "recognize"
            /\ UNCHANGED <<tmpCount, cw_wav_path, fs>>
    /\ UNCHANGED <<program, argv, ffmpegInstalled, _model, callee, audio_path,
                   wav_path, segments, parts, text, retval, exc, calls,
                   ffmpegRuns, toolErr, convOutcome, recogArgs, recogOutcome,
                   recSegments, artifactAtRecog, removed>>
    /\ UNCHANGED io
    /\ UNCHANGED histModel
    /\ UNCHANGED ttsVars

\* Variant: the return code of ffmpeg is not checked.
RunFfmpeg_IgnoreReturnCode ==
    /\ pc = "ffmpeg"
    /\ ffmpegRuns' = ffmpegRuns + 1
    /\ IF ~ffmpegInstalled
       THEN /\ exc' = FfmpegMissingExc
            /\ convOutcome' = "missing"
            /\ pc' = "finally"
            /\ UNCHANGED <<fs, wav_path, audio_to_transcribe, toolErr>>
       ELSE \/ /\ convOutcome' = "ok"
               /\ fs' = fs \cup {cw_wav_path}
               /\ wav_path' = cw_wav_path
               /\ audio_to_transcribe' = cw_wav_path
               /\ pc' = "recognize"
               /\ UNCHANGED <<exc, toolErr>>
            \/ \E err \in ToolErrTexts :
                  /\ toolErr' = err
                  /\ convOutcome' = "failed"
                  /\ wav_path' = cw_wav_path
                  /\ audio_to_transcribe' = cw_wav_path
                  /\ pc' = "recognize"
                  /\ UNCHANGED <<fs, exc>>
    /\ UNCHANGED <<program, argv, ffmpegInstalled, _model, callee, audio_path,
                   cw_wav_path, segments, parts, text, retval, calls, tmpCount,
                   recogArgs, recogOutcome, recSegments, artifactAtRecog,
                   removed>>
    /\ UNCHANGED io
    /\ UNCHANGED histModel
    /\ UNCHANGED ttsVars

\* convert_to_wav lines 34-53 and the assignments of lines 63-64.
RunFfmpeg ==
    /\ pc = "ffmpeg"
    /\ ffmpegRuns' = ffmpegRuns + 1
    /\ IF ~ffmpegInstalled
       THEN /\ exc' = FfmpegMissingExc
            /\ convOutcome' = "missing"
            /\ pc' = "finally"
            /\ UNCHANGED <<fs, wav_path, audio_to_transcribe, toolErr>>
       ELSE \/ /\ convOutcome' = "ok"
               /\ fs' = fs \cup {cw_wav_path}
               /\ wav_path' = cw_wav_path
               /\ audio_to_transcribe' = cw_wav_path
               /\ pc' = "recognize"
               /\ UNCHANGED <<exc, toolErr>>
            \/ \E err \in ToolErrTexts :
                  /\ exc' = FfmpegFailedExc(err)
                  /\ toolErr' = err
                  /\ convOutcome' = "failed"
                  /\ pc' = "finally"
                  /\ UNCHANGED <<fs, wav_path, audio_to_transcribe>>
    /\ UNCHANGED <<program, argv, ffmpegInstalled, _model, callee, audio_path,
                   cw_wav_path, segments, parts, text, retval, calls, tmpCount,
                   recogArgs, recogOutcome, recSegments, artifactAtRecog,
                   removed>>
    /\ UNCHANGED io
    /\ UNCHANGED histModel
    /\ UNCHANGED ttsVars

\* model.transcribe(...), lines 69-74: raises, or returns a generator that
\* will yield one of the segment sequences Outs.
Recognize(Outs) ==
    /\ recogArgs' = Append(recogArgs, audio_to_transcribe)
    /\ artifactAtRecog' = (cw_wav_path \in fs)
    /\ \/ /\ exc' = RecognizerExc
          /\ recogOutcome' = "raised"
          /\ pc' = "finally"
          /\ UNCHANGED <<segments, recSegments>>
       \/ \E segs \in Outs :
             /\ segments' = segs
             /\ recSegments' = segs
             /\ recogOutcome' = "running"
             /\ pc' = "joining"
             /\ UNCHANGED exc
    /\ UNCHANGED <<program, argv, fs, ffmpegInstalled, _model, callee,
                   audio_path, cw_wav_path, wav_path, audio_to_transcribe,
                   parts, text, retval, calls, tmpCount, ffmpegRuns, toolErr,
                   convOutcome, removed>>
    /\ UNCHANGED io
    /\ UNCHANGED histModel
    /\ UNCHANGED ttsVars

\* line 69 in whole-program runs
ModelTranscribe ==
    /\ pc = "recognize"
    /\ Recognize(RecognizerOutputs)

\* line 69 with every segment sequence within the bounds
ModelTranscribeAny ==
    /\ pc = "recognize"
    /\ Recognize(SegSeqs)

\* line 77: join draws the next segment from the generator and strips it.
JoinNext ==
    /\ pc = "joining"
    /\ segments # <<>>
    /\ parts' = Append(parts, Strip(Head(segments)))
    /\ segments' = Tail(segments)
    /\ UNCHANGED <<program, pc, argv, fs, ffmpegInstalled, _model, callee,
                   audio_path, cw_wav_path, wav_path, audio_to_transcribe,
                   text, retval, exc, calls, tmpCount, ffmpegRuns, toolErr,
                   convOutcome, recogArgs, recogOutcome, recSegments,
                   artifactAtRecog, removed>>
    /\ UNCHANGED io
    /\ UNCHANGED histModel
    /\ UNCHANGED ttsVars

\* line 77: the generator raises while join iterates it.
JoinRaise ==
    /\ pc = "joining"
    /\ exc' = RecognizerExc
    /\ recogOutcome' = "raised"
    /\ pc' = "finally"
    /\ UNCHANGED <<program, argv, fs, ffmpegInstalled, _model, callee,
                   audio_path, cw_wav_path, wav_path, audio_to_transcribe,
                   segments, parts, text, retval, calls, tmpCount, ffmpegRuns,
                   toolErr, convOutcome, recogArgs, recSegments,
                   artifactAtRecog, removed>>
    /\ UNCHANGED io
    /\ UNCHANGED histModel
    /\ UNCHANGED ttsVars

\* lines 77-78: the generator is exhausted; join and the final strip.
JoinDone ==
    /\ pc = "joining"
    /\ segments = <<>>
    /\ text' = Join(<<" ">>, parts)
    /\ retval' = Strip(Join(<<" ">>, parts))
    /\ recogOutcome' = "ok"
    /\ pc' = "finally"
    /\ UNCHANGED <<program, argv, fs, ffmpegInstalled, _model, callee,
                   audio_path, cw_wav_path, wav_path, audio_to_transcribe,
                   segments, parts, exc, calls, tmpCount, ffmpegRuns, toolErr,
                   convOutcome, recogArgs, recSegments, artifactAtRecog,
                   removed>>
    /\ UNCHANGED io
    /\ UNCHANGED histModel
    /\ UNCHANGED ttsVars

\* Another process deletes the temp file while recognition runs: the case the
\* os.path.exists test of line 81 provides for.
ExternalRemove ==
    /\ pc = "joining"
    /\ wav_path # None
    /\ wav_path \in fs
    /\ fs' = fs \ {wav_path}
    /\ UNCHANGED <<program, pc, argv, ffmpegInstalled, _model, callee,
                   audio_path, calls, tmpCount>>
    /\ UNCHANGED callVars
    /\ UNCHANGED io
    /\ UNCHANGED histModel
    /\ UNCHANGED ttsVars

\* Variant: os.remove is called without the os.path.exists test; it raises when the file is gone.
Finally_NoExistsCheck ==
    /\ pc = "finally"
    /\ IF wav_path # None /\ wav_path \in fs
       THEN /\ fs' = fs \ {wav_path}
            /\ removed' = removed \cup {wav_path}
            /\ UNCHANGED exc
       ELSE IF wav_path # None
       THEN /\ exc' = [type |-> "FileNotFoundError", text |-> "No such file or directory", detail |-> ""]
            /\ UNCHANGED <<fs, removed>>
       ELSE UNCHANGED <<fs, removed, exc>>
    /\ pc' = "returned"
    /\ UNCHANGED <<program, argv, ffmpegInstalled, _model, callee, audio_path,
                   cw_wav_path, wav_path, audio_to_transcribe, segments, parts,
                   text, retval, calls, tmpCount, ffmpegRuns, toolErr,
                   convOutcome, recogArgs, recogOutcome, recSegments,
                   artifactAtRecog>>
    /\ UNCHANGED io
    /\ UNCHANGED histModel
    /\ UNCHANGED ttsVars

\* the finally block, lines 79-82, then the return or re-raise.
Finally ==
    /\ pc = "finally"
    /\ IF wav_path # None /\ wav_path \in fs
       THEN /\ fs' = fs \ {wav_path}
            /\ removed' = removed \cup {wav_path}
       ELSE UNCHANGED <<fs, removed>>
    /\ pc' = "returned"
    /\ UNCHANGED <<program, argv, ffmpegInstalled, _model, callee, audio_path,
                   cw_wav_path, wav_path, audio_to_transcribe, segments, parts,
                   text, retval, exc, calls, tmpCount, ffmpegRuns, toolErr,
                   convOutcome, recogArgs, recogOutcome, recSegments,
                   artifactAtRecog>>
    /\ UNCHANGED io
    /\ UNCHANGED histModel
    /\ UNCHANGED ttsVars

\* Variant: the except clause reports the error but does not call sys.exit(1).
MainFinish_NoExit ==
    /\ program = "stt_script"
    /\ pc = "returned"
    /\ IF exc = NoExc
       THEN /\ stdout' = Append(stdout, retval)
            /\ exitCode' = 0
            /\ UNCHANGED stderr
       ELSE /\ stderr' = Append(stderr, ErrorLine(exc))
            /\ exitCode' = 0
            /\ UNCHANGED stdout
    /\ pc' = "exited"
    /\ UNCHANGED <<program, argv, fs, ffmpegInstalled, _model, callee,
                   audio_path, calls, tmpCount>>
    /\ UNCHANGED callVars
    /\ UNCHANGED histModel
    /\ UNCHANGED ttsVars

\* __main__, lines 95-100: print the result, or report the exception.
MainFinish ==
    /\ program = "stt_script"
    /\ pc = "returned"
    /\ IF exc = NoExc
       THEN /\ stdout' = Append(stdout, retval)
            /\ exitCode' = 0
            /\ UNCHANGED stderr
       ELSE /\ stderr' = Append(stderr, ErrorLine(exc))
            /\ exitCode' = 1
            /\ UNCHANGED stdout
    /\ pc' = "exited"
    /\ UNCHANGED <<program, argv, fs, ffmpegInstalled, _model, callee,
                   audio_path, calls, tmpCount>>
    /\ UNCHANGED callVars
    /\ UNCHANGED histModel
    /\ UNCHANGED ttsVars

\* ----------------------------------------------- tts_generator.py actions
\* main, lines 18-25: parse the options and start asyncio.run(generate_audio).
TtsMain ==
    /\ program = "tts"
    /\ pc = "tts_main"
    /\ IF tts_argv.text = Omitted \/ tts_argv.output = Omitted
       THEN /\ stderr' = Append(stderr, ArgparseErrorLine)
            /\ exitCode' = 2
            /\ pc' = "exited"
            /\ UNCHANGED args
       ELSE /\ args' = [text |-> tts_argv.text,
                        voice |-> IF tts_argv.voice = Omitted
                                  THEN DefaultVoice ELSE tts_argv.voice,
                        output |-> tts_argv.output]
            /\ pc' = "tts_generate"
            /\ UNCHANGED <<stderr, exitCode>>
    /\ UNCHANGED <<program, tts_argv, communicateCalls, saveCalls, saveDone>>
    /\ UNCHANGED sttOnly
    /\ UNCHANGED callVars
    /\ UNCHANGED histModel

\* generate_audio line 14: construct the client; an exception is not caught.
TtsCommunicate ==
    /\ pc = "tts_generate"
    /\ communicateCalls' = Append(communicateCalls,
                                  [text |-> args.text, voice |-> args.voice])
    /\ \/ /\ pc' = "tts_save"
          /\ UNCHANGED <<stderr, exitCode>>
       \/ /\ stderr' = Append(stderr, TracebackLine)
          /\ exitCode' = 1
          /\ pc' = "exited"
    /\ UNCHANGED <<program, tts_argv, args, saveCalls, saveDone>>
    /\ UNCHANGED sttOnly
    /\ UNCHANGED callVars
    /\ UNCHANGED histModel

\* generate_audio line 15: communicate.save(output) is called and awaited.
TtsSaveStart ==
    /\ pc = "tts_save"
    /\ saveCalls' = Append(saveCalls, args.output)
    /\ pc' = "tts_saving"
    /\ UNCHANGED <<program, tts_argv, args, communicateCalls, saveDone>>
    /\ UNCHANGED sttOnly
    /\ UNCHANGED callVars
    /\ UNCHANGED histModel
    /\ UNCHANGED <<stderr, exitCode>>

\* the awaited save completes (line 15).
TtsSaveComplete ==
    /\ pc = "tts_saving"
    /\ saveDone' = saveDone + 1
    /\ pc' = "tts_saved"
    /\ UNCHANGED <<program, tts_argv, args, communicateCalls, saveCalls>>
    /\ UNCHANGED sttOnly
    /\ UNCHANGED callVars
    /\ UNCHANGED histModel
    /\ UNCHANGED <<stderr, exitCode>>

\* Variant: a failed save is retried once with a new client.
TtsSaveRaise_Retry ==
    /\ pc = "tts_saving"
    /\ IF Len(saveCalls) < 2
       THEN /\ pc' = "tts_generate"
            /\ UNCHANGED <<stderr, exitCode>>
       ELSE /\ stderr' = Append(stderr, TracebackLine)
            /\ exitCode' = 1
            /\ pc' = "exited"
    /\ UNCHANGED <<program, tts_argv, args, communicateCalls, saveCalls, saveDone>>
    /\ UNCHANGED sttOnly
    /\ UNCHANGED callVars
    /\ UNCHANGED histModel

\* the awaited save raises (line 15); nothing catches it (lines 25, 29).
TtsSaveRaise ==
    /\ pc = "tts_saving"
    /\ stderr' = Append(stderr, TracebackLine)
    /\ exitCode' = 1
    /\ pc' = "exited"
    /\ UNCHANGED <<program, tts_argv, args, communicateCalls, saveCalls, saveDone>>
    /\ UNCHANGED sttOnly
    /\ UNCHANGED callVars
    /\ UNCHANGED histModel

\* generate_audio returns, asyncio.run returns (line 25), main returns (line 29).
TtsReturn ==
    /\ pc = "tts_saved"
    /\ exitCode' = 0
    /\ pc' = "exited"
    /\ UNCHANGED <<program, tts_argv, args, communicateCalls, saveCalls, saveDone>>
    /\ UNCHANGED sttOnly
    /\ UNCHANGED callVars
    /\ UNCHANGED histModel
    /\ UNCHANGED stderr

Next ==
    \/ MainStart
    \/ ImportCall
    \/ GetModel
    \/ Branch
    \/ RunFfmpeg
    \/ ModelTranscribe
    \/ JoinNext
    \/ JoinRaise
    \/ JoinDone
    \/ ExternalRemove
    \/ Finally
    \/ MainFinish
    \/ TtsMain
    \/ TtsCommunicate
    \/ TtsSaveStart
    \/ TtsSaveComplete
    \/ TtsSaveRaise
    \/ TtsReturn

Spec == Init /\ [][Next]_vars

\* Runs of the script on an existing .wav file, the recognizer yielding any
\* segment sequence within the bounds: the inputs of lines 77-78.
InitJoin ==
    /\ Init
    /\ program = "stt_script"
    /\ argv = << <<"a", ".", "w", "a", "v">> >>
    /\ fs = InputPaths
    /\ ffmpegInstalled

NextJoin ==
    \/ MainStart
    \/ GetModel
    \/ Branch
    \/ ModelTranscribeAny
    \/ JoinNext
    \/ JoinRaise
    \/ JoinDone
    \/ Finally
    \/ MainFinish

SpecJoin == InitJoin /\ [][NextJoin]_vars

\* ------------------------------------------------------------ properties
\* Helpers of the properties: the notions of the specification text, stated
\* independently of the operators that model the code.

\* p ends in ".webm" or ".ogg"
EndsInWebmOrOgg(p) ==
    LET n == Len(p) IN
    \/ /\ n >= 5
       /\ p[n - 4] = "." /\ p[n - 3] = "w" /\ p[n - 2] = "e"
       /\ p[n - 1] = "b" /\ p[n] = "m"
    \/ /\ n >= 4
       /\ p[n - 3] = "." /\ p[n - 2] = "o" /\ p[n - 1] = "g" /\ p[n] = "g"

\* s without its leading and trailing whitespace
Trimmed(s) ==
    LET idx == {i \in 1..Len(s) : s[i] \notin Whitespace} IN
    IF idx = {} THEN <<>>
    ELSE SubSeq(s, CHOOSE i \in idx : \A j \in idx : i <= j,
                   CHOOSE i \in idx : \A j \in idx : i >= j)

\* where the i-th of the texts ts starts in their single-space join (0-based)
RECURSIVE Offset(_, _)
Offset(ts, i) == IF i = 1 THEN 0 ELSE Offset(ts, i - 1) + Len(ts[i - 1]) + 1

\* J is the texts ts in order, each once, one space between neighbours
JoinedWithSingleSpaces(J, ts) ==
    /\ Len(J) = IF ts = <<>> THEN 0 ELSE Offset(ts, Len(ts)) + Len(ts[Len(ts)])
    /\ \A i \in 1..Len(ts) :
          SubSeq(J, Offset(ts, i) + 1, Offset(ts, i) + Len(ts[i])) = ts[i]
    /\ \A i \in 2..Len(ts) : J[Offset(ts, i)] = " "

TempFiles == {TmpPath(n) : n \in 1..tmpCount}

ScriptExited == program = "stt_script" /\ pc = "exited"

ConversionFailed == convOutcome \in {"missing", "failed"}

\* C1: when the transcription script has exited, on whatever path, no temporary
\* WAV file created by the run still exists on the filesystem.
C1_NoTempFileAtExit == ScriptExited => TempFiles \cap fs = {}

\* C2: for an argument path that does not exist the script can only exit with
\* status 1 and one error line naming that path; ffmpeg is never run, no
\* temporary file is created, the model is neither loaded nor asked to transcribe.
C2_MissingFile ==
    (program = "stt_script" /\ Len(argv) >= 1 /\ argv[1] \notin fs) =>
        /\ pc \in {"main", "exited"}
        /\ ffmpegRuns = 0
        /\ tmpCount = 0
        /\ ctorCalls = 0
        /\ recogArgs = <<>>
        /\ pc = "exited" =>
              /\ exitCode = 1
              /\ Len(stderr) = 1
              /\ stderr[1].text = "Error: File not found: "
              /\ stderr[1].path = argv[1]
              /\ stdout = <<>>

C2_Witness ==
    /\ ScriptExited
    /\ Len(argv) >= 1
    /\ argv[1] \notin fs
    /\ exitCode = 1

\* C3: the script exits 0 only when recognition completed, having written the
\* recognized text to standard output; on a missing argument, a missing file,
\* a missing conversion tool, a failed conversion and any recognizer exception
\* it exits 1 with one diagnostic on standard error and nothing on standard output.
C3_ExitContract ==
    program = "stt_script" =>
        /\ pc # "exited" => (stdout = <<>> /\ exitCode = NotExited)
        /\ pc = "exited" =>
              /\ exitCode \in {0, 1}
              /\ exitCode = 0 =>
                    /\ recogOutcome = "ok"
                    /\ stdout = <<retval>>
                    /\ stderr = <<>>
              /\ ( \/ Len(argv) < 1
                   \/ argv[1] \notin fs
                   \/ ConversionFailed
                   \/ recogOutcome = "raised"
                   \/ exc # NoExc ) => exitCode = 1
              /\ exitCode = 1 => (Len(stderr) = 1 /\ stdout = <<>>)

C3_Witness ==
    /\ ScriptExited
    /\ recogOutcome = "raised"
    /\ Len(recogArgs) = 1
    /\ exitCode = 1

\* C4: when the conversion of a .webm/.ogg path fails, ffmpeg was run exactly
\* once, model.transcribe is never called, and the script exits 1 with the
\* installation hint (tool not found) or the tool's error text (non-zero status).
C4_ConversionFailure ==
    ConversionFailed =>
        /\ EndsInWebmOrOgg(audio_path)
        /\ ffmpegRuns = 1
        /\ recogArgs = <<>>
        /\ recogOutcome = "none"
        /\ pc \in {"finally", "returned", "exited"}
        /\ ScriptExited =>
              /\ exitCode = 1
              /\ Len(stderr) = 1
              /\ convOutcome = "missing" =>
                    stderr[1].text =
                        "Error: ffmpeg not found. Please install ffmpeg: brew install ffmpeg"
              /\ convOutcome = "failed" =>
                    /\ stderr[1].text = "Error: ffmpeg conversion failed: "
                    /\ stderr[1].detail = toolErr
                    /\ toolErr \in ToolErrTexts

C4_Witness ==
    /\ ScriptExited
    /\ convOutcome = "failed"
    /\ stderr[1].detail = "Invalid data found"

\* C5: when the recognizer is invoked for a .webm/.ogg path the temporary WAV
\* file exists and is the path the recognizer receives; once transcribe has
\* returned or raised the file is gone, and the cleanup raises nothing of its
\* own, also when the file had already disappeared.
C5_ArtifactLifetime ==
    (callee = "transcribe" /\ EndsInWebmOrOgg(audio_path) /\ recogArgs # <<>>) =>
        /\ artifactAtRecog
        /\ cw_wav_path # None
        /\ cw_wav_path # audio_path
        /\ recogArgs = <<cw_wav_path>>
        /\ pc \in {"returned", "exited"} =>
              /\ cw_wav_path \notin fs
              /\ recogOutcome \in {"ok", "raised"}
              /\ recogOutcome = "ok" => exc = NoExc
              /\ recogOutcome = "raised" => exc = RecognizerExc

C5_Witness ==
    /\ pc = "returned"
    /\ callee = "transcribe"
    /\ EndsInWebmOrOgg(audio_path)
    /\ recogArgs = <<cw_wav_path>>
    /\ recogOutcome = "ok"
    /\ removed = {}
    /\ cw_wav_path \notin fs

\* C6: for a path that does not end in .webm or .ogg a transcription never runs
\* ffmpeg, creates no temporary file, deletes no file, and hands the original
\* path to the recognizer.
C6_NoConversion ==
    (callee = "transcribe" /\ ~EndsInWebmOrOgg(audio_path)) =>
        /\ ffmpegRuns = 0
        /\ convOutcome = "none"
        /\ cw_wav_path = None
        /\ wav_path = None
        /\ removed = {}
        /\ program = "stt_script" => (tmpCount = 0 /\ fs = InputPaths)
        /\ recogArgs \in {<<>>, <<audio_path>>}
        /\ recogOutcome # "none" => recogArgs = <<audio_path>>

C6_Witness ==
    /\ ScriptExited
    /\ callee = "transcribe"
    /\ audio_path = <<"o", "g", "g">>
    /\ recogArgs = <<audio_path>>
    /\ exitCode = 0

\* C7: the text transcribe returns is the recognizer's segment texts in order,
\* each trimmed, one space between consecutive ones, the whole trimmed again;
\* no segment is dropped, duplicated or reordered.
C7_Concatenation ==
    recogOutcome = "ok" =>
        LET ts == [i \in 1..Len(recSegments) |-> Trimmed(recSegments[i])] IN
        /\ Len(parts) = Len(recSegments)
        /\ JoinedWithSingleSpaces(text, ts)
        /\ retval = Trimmed(text)

C7_Witness ==
    /\ recogOutcome = "ok"
    /\ recSegments = << <<" ", "a", " ">>, <<"a", " ">> >>
    /\ retval = <<"a", " ", "a">>

\* C8: the synthesis script constructs the client at most once, with the given
\* text and voice (ja-JP-NanamiNeural when --voice is omitted), starts save at
\* most once, with the given output path, and exits 0 only after that save has
\* completed; when the client raises there is no second attempt and the exit
\* status is non-zero.
C8_SingleSynthesis ==
    program = "tts" =>
        /\ Len(communicateCalls) <= 1
        /\ Len(saveCalls) <= 1
        /\ saveDone <= Len(saveCalls)
        /\ communicateCalls # <<>> =>
              /\ communicateCalls[1].text = tts_argv.text
              /\ communicateCalls[1].voice =
                    IF tts_argv.voice = Omitted
                    THEN "ja-JP-NanamiNeural" ELSE tts_argv.voice
        /\ saveCalls # <<>> =>
              (saveCalls[1] = tts_argv.output /\ communicateCalls # <<>>)
        /\ (pc = "exited" /\ exitCode = 0) =>
              (Len(communicateCalls) = 1 /\ Len(saveCalls) = 1 /\ saveDone = 1)
        /\ (pc = "exited" /\ communicateCalls # <<>> /\ saveDone = 0) =>
              exitCode = 1

C8_Witness ==
    /\ program = "tts"
    /\ pc = "exited"
    /\ exitCode = 0
    /\ tts_argv.voice = Omitted
    /\ communicateCalls = <<[text |-> "konnichiwa", voice |-> "ja-JP-NanamiNeural"]>>
    /\ saveCalls = <<"out.mp3">>

\* C9 as stated: the model is constructed on the first call of get_model and
\* the constructor is never invoked a second time.
C9_Original ==
    /\ ctorCalls <= 1
    /\ getModelDone >= 1 => _model # ModelNone

C9_CacheInv ==
    /\ ctorOk <= 1
    /\ getModelDone = 0 => (ctorCalls = 0 /\ _model = ModelNone)
    /\ ctorCalls <= getModelDone
    /\ _model = ModelNone => (ctorOk = 0 /\ returnedModels = {})
    /\ _model # ModelNone => (ctorOk = 1 /\ returnedModels = {_model})

C9_CacheStep ==
    /\ _model # ModelNone => (_model' = _model /\ ctorCalls' = ctorCalls)
    /\ (getModelDone' # getModelDone /\ _model = ModelNone) =>
          ctorCalls' = ctorCalls + 1

\* C9 (amended): the model is successfully constructed at most once: nothing
\* is constructed before the first call, a call that finds the cache empty
\* invokes the constructor, and once a construction has succeeded every later
\* call returns that same instance without invoking the constructor again.
C9_ConstructedOnce == []C9_CacheInv /\ [][C9_CacheStep]_vars

C9_Witness ==
    /\ getModelDone = 2
    /\ ctorCalls = 1
    /\ ctorOk = 1
    /\ returnedModels = {_model}

\* C10 as stated: the conversion precedes the model load, so a run whose
\* conversion fails never loads the model.
C10_Original ==
    (program = "stt_script" /\ ConversionFailed) => ctorCalls = 0

\* C10 (amended): the model is loaded before the conversion: ffmpeg is run
\* only once get_model has returned the model, so a run whose conversion fails
\* has loaded the model; only model.transcribe is never called.
C10_ModelBeforeConversion ==
    /\ (pc = "ffmpeg" \/ ffmpegRuns > 0 \/ cw_wav_path # None) =>
          (_model # ModelNone /\ returnedModels = {_model})
    /\ (program = "stt_script" /\ ConversionFailed) =>
          (ctorCalls = 1 /\ ctorOk = 1 /\ recogArgs = <<>>)

C10_Witness ==
    /\ ScriptExited
    /\ convOutcome = "missing"
    /\ ctorOk = 1
    /\ exitCode = 1

====
